---- MODULE Spec2Model ----
(***************************************************************************)
(* A state-machine model of the project-content synchronisation layer of   *)
(* src/botxlab/src/App.tsx: the repository catalog (fetchRepos, its        *)
(* localStorage cache and the org/user fallback) and the tab-scoped        *)
(* content loader (the loadContent effect).                                *)
(***************************************************************************)
EXTENDS Integers, Sequences, FiniteSets, TLC

(* ------------------------------ bounds -------------------------------- *)

\* Repositories the data source knows have ids 1..NumRepoIds.
NumRepoIds == 2
\* updated_at timestamps are 1..NumTimes (a larger number is more recent).
NumTimes == 2
\* Listing calls (fetchRepos) that may be awaiting a response at once.
MaxReposFetches == 2
\* Content loads (loadContent) that may be awaiting a response at once.
MaxContentFetches == 2
\* Longest release / commit / contributor collection a response carries.
MaxItems == 1
\* Repositories of a catalog whose statistics are computed.
MaxStatRepos == 3

(* --------------------------- data model ------------------------------- *)

RepoIds == 1..NumRepoIds
Times == 1..NumTimes

\* interface Repo, reduced to the fields the synchronisation layer reads:
\* id (which also stands for full_name and name) and updated_at.
Repo == [id : RepoIds, updated_at : Times]

\* currentRepo's initial value, useState<Repo | null>(null).
NoRepo == [id |-> 0, updated_at |-> 0]

\* type TabState
TabState == {"readme", "releases", "commits", "collaborators"}

\* type ViewState
ViewState == {"dashboard", "project"}

\* A JavaScript value as JSON.parse / res.json() can produce it: an array (with
\* its elements), or null, a plain object, a number, a string.
JArray(s) == [kind |-> "array", items |-> s]
JNull == [kind |-> "null", items |-> <<>>]
JObject == [kind |-> "object", items |-> <<>>]
JNumber == [kind |-> "number", items |-> <<>>]
JString == [kind |-> "string", items |-> <<>>]

IsArray(v) == v.kind = "array"

\* contentError's null.
NULL == "<null>"

\* All sequences over S of length at most n.
RECURSIVE SeqsUpTo(_, _)
SeqsUpTo(S, n) ==
    IF n = 0 THEN {<<>>}
    ELSE LET shorter == SeqsUpTo(S, n - 1)
         IN  shorter \cup {Append(s, x) : s \in {t \in shorter : Len(t) = n - 1}, x \in S}

\* The repository collections a listing endpoint can answer with: any order,
\* any timestamps, each repository at most once.
Collections ==
    {s \in SeqsUpTo(Repo, NumRepoIds) :
        \A i, j \in DOMAIN s : i # j => s[i].id # s[j].id}

(* ------------------- Array.prototype.sort (line 186) ------------------ *)

\* The comparator with its operands exchanged: ascending order.
CompareUpdatedAsc(a, b) == a.updated_at - b.updated_at

\* The comparator of line 186-188: negative when a is to come before b.
CompareUpdatedDesc(a, b) == b.updated_at - a.updated_at


\* x placed into the sorted sequence s behind every element that does not
\* compare after it: Array.prototype.sort is stable.
RECURSIVE InsertSorted(_, _)
InsertSorted(x, s) ==
    IF s = <<>> THEN <<x>>
    ELSE IF CompareUpdatedDesc(s[1], x) <= 0 THEN <<s[1]>> \o InsertSorted(x, Tail(s))
    ELSE <<x>> \o s

RECURSIVE SortFrom(_, _)
SortFrom(done, rest) ==
    IF rest = <<>> THEN done
    ELSE SortFrom(InsertSorted(rest[1], done), Tail(rest))

\* data.sort((a, b) => new Date(b.updated_at) - new Date(a.updated_at))
SortByUpdated(s) == SortFrom(<<>>, s)

\* s is in updated_at descending order.
SortedDesc(s) ==
    \A i, j \in DOMAIN s : i < j => s[i].updated_at >= s[j].updated_at

(* ------------- JSON.stringify / JSON.parse (lines 126, 191) ----------- *)

\* The largest number a Repo field holds.
MaxField == IF NumRepoIds > NumTimes THEN NumRepoIds ELSE NumTimes

\* A stored text is a sequence of JSON tokens.
StringifyRepo(r) ==
    <<"{", ToString(r.id), ",", ToString(r.updated_at), "}">>

RECURSIVE StringifyItems(_)
StringifyItems(s) ==
    IF s = <<>> THEN <<>>
    ELSE IF Len(s) = 1 THEN StringifyRepo(s[1])
    ELSE StringifyRepo(s[1]) \o <<",">> \o StringifyItems(Tail(s))

\* JSON.stringify(processed), processed an array of Repo.
JSONstringify(s) == <<"[">> \o StringifyItems(s) \o <<"]">>

IsNumberToken(t) == \E n \in 0..MaxField : ToString(n) = t
NumberOf(t) == CHOOSE n \in 0..MaxField : ToString(n) = t

\* The tokens of one repository object at the head of toks.
IsRepoAt(toks) ==
    /\ Len(toks) >= 5
    /\ toks[1] = "{" /\ IsNumberToken(toks[2]) /\ toks[3] = ","
    /\ IsNumberToken(toks[4]) /\ toks[5] = "}"
    /\ NumberOf(toks[2]) \in RepoIds /\ NumberOf(toks[4]) \in Times

RepoAt(toks) == [id |-> NumberOf(toks[2]), updated_at |-> NumberOf(toks[4])]

\* The elements between the brackets of an array text: ok is FALSE where
\* JSON.parse throws a SyntaxError.
RECURSIVE ParseItems(_)
ParseItems(toks) ==
    IF toks = <<>> THEN [ok |-> TRUE, items |-> <<>>]
    ELSE IF ~IsRepoAt(toks) THEN [ok |-> FALSE, items |-> <<>>]
    ELSE LET rest == SubSeq(toks, 6, Len(toks))
         IN  IF rest = <<>> THEN [ok |-> TRUE, items |-> <<RepoAt(toks)>>]
             ELSE IF rest[1] # "," \/ Len(rest) = 1 THEN [ok |-> FALSE, items |-> <<>>]
             ELSE LET more == ParseItems(Tail(rest))
                  IN  [ok |-> more.ok,
                       items |-> IF more.ok THEN <<RepoAt(toks)>> \o more.items ELSE <<>>]

\* JSON.parse(text): ok is FALSE where it throws.
JSONparse(text) ==
    IF text = <<"null">> THEN [ok |-> TRUE, value |-> JNull]
    ELSE IF text = <<"{", "}">> THEN [ok |-> TRUE, value |-> JObject]
    ELSE IF Len(text) = 1 /\ IsNumberToken(text[1]) THEN [ok |-> TRUE, value |-> JNumber]
    ELSE IF text = <<"\"x\"">> THEN [ok |-> TRUE, value |-> JString]
    ELSE IF Len(text) >= 2 /\ text[1] = "[" /\ text[Len(text)] = "]"
         THEN LET inner == ParseItems(SubSeq(text, 2, Len(text) - 1))
              IN  [ok |-> inner.ok,
                   value |-> IF inner.ok THEN JArray(inner.items) ELSE JNull]
    ELSE [ok |-> FALSE, value |-> JNull]

(* ----------------------------- state ---------------------------------- *)

VARIABLES
    localStorage,    \* the browser's key-value store, the three keys the app uses
    repos,           \* useState<Repo[]>, line 123
    config,          \* useState({token, org}), line 130
    reposLoading,    \* line 146
    syncStatus,      \* line 148
    reposFetches,    \* the fetchRepos calls suspended at an await, oldest first
    currentRepo,     \* line 135
    view,            \* line 136
    activeTab,       \* line 137
    contentLoading,  \* line 147
    contentError,    \* line 157
    readmeContent,   \* line 152
    releases,        \* line 154
    commits,         \* line 155
    collaborators,   \* line 156
    contentFetches,  \* the loadContent calls suspended at an await, oldest first
    currentRepoListed, \* currentRepo is (the same object as) an element of repos
    phase,           \* "constructed", "mounted", or "crashed" once a render has thrown
    searchTerm,      \* line 138
    markdownProps,   \* the props of the img or a element ReactMarkdown last rendered
    renderedUrl,     \* the src or href that element was given (lines 309, 318)
    toc,             \* line 153
    tocFramePending  \* a requestAnimationFrame callback of the TOC effect is pending

catalogVars == <<localStorage, repos, config, reposLoading, syncStatus, reposFetches>>
contentVars == <<currentRepo, currentRepoListed, view, activeTab, contentLoading, contentError,
                 readmeContent, releases, commits, collaborators, contentFetches>>
renderVars == <<searchTerm, markdownProps, renderedUrl>>
tocVars == <<toc, tocFramePending>>
vars == <<catalogVars, contentVars, phase, renderVars, tocVars>>

\* No markdown element has been rendered.
NoProps == [tag |-> "none", url |-> <<>>]
NoUrl == <<"<none>">>

\* A key of localStorage: absent (getItem gives null) or holding a text.
Absent == [present |-> FALSE, text |-> <<>>]
Item(text) == [present |-> TRUE, text |-> text]

\* The account handles and credentials the settings form is given.
Handles == {"botxlab", "acme"}
Tokens == {"", "ghp"}

\* A string stored under a key: one token, or no token for the empty string.
StringText(str) == IF str = "" THEN <<>> ELSE <<str>>

\* localStorage.getItem(key) || fallback, for the two configuration keys.
GetItemOr(item, fallback) ==
    IF item.present /\ item.text # <<>> THEN item.text[1] ELSE fallback

\* The useState initialiser of lines 123-128.
\* An initialiser that never reads the cache.
InitialReposWithoutCache(saved) == JArray(<<>>)

InitialRepos(saved) ==
    IF ~saved.present \/ saved.text = <<>> THEN JArray(<<>>)
    ELSE LET parsed == JSONparse(saved.text)
         IN  IF parsed.ok THEN parsed.value ELSE JArray(<<>>)

\* The useState initialiser of lines 130-133.
InitialConfig(store) ==
    [token |-> GetItemOr(store.botxlab_token, ""),
     org |-> GetItemOr(store.botxlab_org, "botxlab")]

\* What the cache key can hold when a session starts: nothing, the empty
\* string, text JSON.parse rejects, JSON that is no array, or what a
\* successful load of an earlier session wrote.
CorruptTexts == {<<"[">>, <<"[", "{", "]">>}
NonArrayTexts == {<<"null">>, <<"{", "}">>, <<"1">>, <<"\"x\"">>}
WrittenTexts == {JSONstringify(SortByUpdated(c)) : c \in Collections}
StoredCaches ==
    {Absent} \cup {Item(t) : t \in {<<>>} \cup CorruptTexts \cup NonArrayTexts \cup WrittenTexts}

(* --------------------------- content data ----------------------------- *)

\* The README text of a repository, told apart by the repository it is of;
\* the empty string is the empty sequence.
EmptyText == <<>>
ReadmeBody(id) == <<id>>

\* The release / commit / contributor collection of n elements of a
\* repository, each element told apart by the repository it is of.
ItemsOf(id, n) == [k \in 1..n |-> [repo |-> id, index |-> k]]

\* A response: status 0 stands for a transport failure (fetch rejects), the
\* others are HTTP statuses; data is the body. A body of an error status is
\* the JSON object GitHub sends ({"message": ...}).
Rejected == 0
IsOk(reply) == reply.status >= 200 /\ reply.status <= 299

\* The answers to a listing request (lines 175, 179).
ListingReplies ==
    {[status |-> st, data |-> JObject] : st \in {Rejected, 404, 403}}
        \cup {[status |-> 200, data |-> JArray(c)] : c \in Collections}

\* The answers to GET /repos/{full_name}/readme (line 218).
ReadmeReplies(id) ==
    {[status |-> st, data |-> EmptyText] : st \in {Rejected, 404}}
        \cup {[status |-> 200, data |-> ReadmeBody(id)]}

\* The answers to the releases, commits and contributors requests.
ListReplies(id) ==
    {[status |-> st, data |-> JObject] : st \in {Rejected, 404}}
        \cup {[status |-> 200, data |-> JArray(ItemsOf(id, n))] : n \in 0..MaxItems}

\* The message of the TypeError a rejected fetch throws.
FailedToFetch == "Failed to fetch"

(* ------------------------------ render -------------------------------- *)

\* The render of lines 268-281 and 590-683 throws a TypeError: repos is no
\* array (repos.filter, line 269), or the collection of the shown tab is no
\* array (releases.map, commits.map, collaborators.map).
RenderThrows ==
    \/ ~IsArray(repos)
    \/ /\ view = "project" /\ currentRepo # NoRepo
       /\ ~contentLoading /\ contentError = NULL
       /\ \/ activeTab = "releases" /\ ~IsArray(releases)
          \/ activeTab = "commits" /\ ~IsArray(commits)
          \/ activeTab = "collaborators" /\ ~IsArray(collaborators)

\* An uncaught error in a render unmounts the application.
AfterRender == IF RenderThrows THEN "crashed" ELSE "mounted"

(* ------------------------ the two effects ----------------------------- *)

RemoveAt(s, i) == SubSeq(s, 1, i - 1) \o SubSeq(s, i + 1, Len(s))

\* fetchRepos up to its first await (lines 170-175): the call is suspended on
\* the request to the organization endpoint, with the handle and the headers
\* of the closure.
FetchReposCall(cfg, fetches) ==
    Append(fetches, [org |-> cfg.org, token |-> cfg.token, endpoint |-> "orgs"])

\* An Initial Fetch effect without its dependency array: it runs after every
\* render.
InitialFetchCallsEveryRender(newRepos, newConfig) ==
    Len(newRepos.items) = 0

\* The Initial Fetch effect (lines 202-204) runs when fetchRepos (that is,
\* config.org or config.token) or repos.length changed, and calls fetchRepos
\* when the catalog is empty.
InitialFetchCalls(newRepos, newConfig) ==
    /\ newConfig # config \/ Len(newRepos.items) # Len(repos.items)
    /\ Len(newRepos.items) = 0

\* A render that commits the given catalog state, followed by the Initial
\* Fetch effect.
CommitCatalog(newRepos, newConfig, newLoading, newStatus, newFetches) ==
    /\ repos' = newRepos
    /\ config' = newConfig
    /\ IF InitialFetchCalls(newRepos, newConfig)
       THEN /\ Len(newFetches) < MaxReposFetches
            /\ reposFetches' = FetchReposCall(newConfig, newFetches)
            /\ reposLoading' = TRUE
            /\ syncStatus' = "loading"
       ELSE /\ reposFetches' = newFetches
            /\ reposLoading' = newLoading
            /\ syncStatus' = newStatus

\* A content effect without its dependency array: it runs after every render.
LoadContentCallsEveryRender(newView, newTab, newRepo, repoChanged, newToken) ==
    newView = "project" /\ newRepo # NoRepo

\* The content effect (lines 207-248) runs when view, activeTab, currentRepo
\* or getHeaders (that is, config.token) changed, and calls loadContent when
\* a project is shown.
LoadContentCalls(newView, newTab, newRepo, repoChanged, newToken) ==
    /\ newView # view \/ newTab # activeTab \/ repoChanged \/ newToken # config.token
    /\ newView = "project" /\ newRepo # NoRepo

\* A render that commits the given selection, followed by the content effect:
\* loadContent up to its await (lines 210-235).
CommitContent(newView, newTab, newRepo, repoChanged, newToken) ==
    /\ view' = newView
    /\ activeTab' = newTab
    /\ currentRepo' = newRepo
    /\ IF LoadContentCalls(newView, newTab, newRepo, repoChanged, newToken)
       THEN /\ Len(contentFetches) < MaxContentFetches
            /\ contentLoading' = TRUE
            /\ contentError' = NULL
            /\ readmeContent' = IF newTab = "readme" THEN EmptyText ELSE readmeContent
            /\ contentFetches' =
                   Append(contentFetches, [repo |-> newRepo.id, tab |-> newTab, token |-> newToken])
       ELSE UNCHANGED <<contentLoading, contentError, readmeContent, contentFetches>>
    /\ UNCHANGED <<releases, commits, collaborators>>

(* --------------------- the TOC effect (lines 250-265) ------------------ *)

\* The h1, h2 and h3 elements of the README text and of the bodies of the
\* releases: every README that is not empty and every release body holds one.
HeadingsOfReadme(text) ==
    IF text = EmptyText THEN <<>> ELSE <<[of |-> "readme", repo |-> text[1]]>>
HeadingsOfReleases(list) ==
    IF IsArray(list)
    THEN [k \in DOMAIN list.items |-> [of |-> "release", repo |-> list.items[k].repo]]
    ELSE <<>>

\* document.querySelectorAll('.markdown-body h1, ...') (line 254): the
\* elements of class markdown-body are the README article (line 601) and
\* the release bodies (line 632), rendered when the content is shown.
MarkdownBodyHeadings ==
    IF /\ phase = "mounted" /\ view = "project" /\ currentRepo # NoRepo
       /\ ~contentLoading /\ contentError = NULL
    THEN IF activeTab = "readme" THEN HeadingsOfReadme(readmeContent)
         ELSE IF activeTab = "releases" THEN HeadingsOfReleases(releases)
         ELSE <<>>
    ELSE <<>>

\* One run of the TOC effect after a render whose activeTab or readmeContent
\* differs from that of the render before: it requests an animation frame,
\* or empties the table.
TocEffect(prevTab, prevReadme, tab, readme, table, pending) ==
    IF tab = prevTab /\ readme = prevReadme THEN [toc |-> table, pending |-> pending]
    ELSE IF tab = "readme" /\ readme # EmptyText THEN [toc |-> table, pending |-> TRUE]
    ELSE [toc |-> <<>>, pending |-> pending]

\* The TOC effect over the renders of a step: the render that commits the
\* new selection, and the render that commits what loadContent (or its
\* continuation) has set. A render that throws runs no effect.
TocEffects ==
    LET first == TocEffect(activeTab, readmeContent, activeTab', readmeContent,
                           toc, tocFramePending)
        second == TocEffect(activeTab', readmeContent, activeTab', readmeContent',
                            first.toc, first.pending)
    IN  IF phase' = "mounted"
        THEN toc' = second.toc /\ tocFramePending' = second.pending
        ELSE UNCHANGED tocVars

\* The animation frame: the callbacks requested since the last one run
\* (lines 253-260), whatever has happened in between. They read the document
\* as it is now.
TocFrame ==
    /\ tocFramePending
    /\ phase # "constructed"
    /\ tocFramePending' = FALSE
    /\ toc' = IF phase = "mounted" THEN MarkdownBodyHeadings ELSE toc
    /\ UNCHANGED <<catalogVars, contentVars, phase, renderVars>>

(* ------------------------------ Init ---------------------------------- *)

StoredStrings(S) == {Absent} \cup {Item(StringText(x)) : x \in S}

\* A session is constructed (lines 123-157) from what localStorage holds.
Constructed ==
    /\ repos = InitialRepos(localStorage.botxlab_cache_v6)
    /\ config = InitialConfig(localStorage)
    /\ reposLoading = FALSE
    /\ syncStatus = "idle"
    /\ reposFetches = <<>>
    /\ currentRepo = NoRepo
    /\ currentRepoListed = FALSE
    /\ view = "dashboard"
    /\ activeTab = "readme"
    /\ contentLoading = FALSE
    /\ contentError = NULL
    /\ readmeContent = EmptyText
    /\ releases = JArray(<<>>)
    /\ commits = JArray(<<>>)
    /\ collaborators = JArray(<<>>)
    /\ contentFetches = <<>>
    /\ phase = "constructed"
    /\ searchTerm = <<>>
    /\ markdownProps = NoProps
    /\ renderedUrl = NoUrl
    /\ toc = <<>>
    /\ tocFramePending = FALSE

\* Any cache, any saved settings.
Init ==
    /\ localStorage \in [botxlab_cache_v6 : StoredCaches,
                         botxlab_org : StoredStrings(Handles),
                         botxlab_token : StoredStrings(Tokens)]
    /\ Constructed

(* ------------------------- catalog actions ---------------------------- *)

\* A first render whose Initial Fetch effect calls fetchRepos whatever the
\* catalog holds.
MountFetching ==
    /\ phase = "constructed"
    /\ UNCHANGED <<renderVars, tocVars>>
    /\ IF RenderThrows
       THEN /\ phase' = "crashed"
            /\ UNCHANGED <<catalogVars, contentVars>>
       ELSE /\ phase' = "mounted"
            /\ reposFetches' = FetchReposCall(config, reposFetches)
            /\ reposLoading' = TRUE
            /\ syncStatus' = "loading"
            /\ UNCHANGED <<localStorage, repos, config, contentVars>>

\* The first render and the effects after it.
Mount ==
    /\ phase = "constructed"
    /\ UNCHANGED <<renderVars, tocVars>>
    /\ IF RenderThrows
       THEN /\ phase' = "crashed"
            /\ UNCHANGED <<catalogVars, contentVars>>
       ELSE /\ phase' = "mounted"
            /\ IF Len(repos.items) = 0
               THEN /\ reposFetches' = FetchReposCall(config, reposFetches)
                    /\ reposLoading' = TRUE
                    /\ syncStatus' = "loading"
               ELSE UNCHANGED <<reposFetches, reposLoading, syncStatus>>
            /\ UNCHANGED <<localStorage, repos, config, contentVars>>

\* The Refresh button (line 396).
Refresh ==
    /\ phase = "mounted"
    /\ Len(reposFetches) < MaxReposFetches
    /\ UNCHANGED <<renderVars, tocVars>>
    /\ reposFetches' = FetchReposCall(config, reposFetches)
    /\ reposLoading' = TRUE
    /\ syncStatus' = "loading"
    /\ UNCHANGED <<localStorage, repos, config, contentVars, phase>>

\* Line 177: the reply to the organization request is a 404.
FallsBackOnAnyStatus(call, reply) ==
    call.endpoint = "orgs" /\ reply.status # Rejected /\ ~IsOk(reply)

FallsBackToUser(call, reply) ==
    call.endpoint = "orgs" /\ reply.status = 404

\* A try block without the status test of line 182.
ReposReplyThrowsOnRejectionOnly(reply) ==
    reply.status = Rejected

\* The try block throws: the fetch rejected (lines 175, 179), the status is
\* no success (line 182), or the body is no array (data.sort, line 186).
ReposReplyThrows(reply) ==
    reply.status = Rejected \/ ~IsOk(reply) \/ ~IsArray(reply.data)

\* Lines 177-180: the call is suspended again, on the same request to the
\* user endpoint.
ReposFallback(i) ==
    /\ reposFetches' = [reposFetches EXCEPT ![i].endpoint = "users"]
    /\ UNCHANGED <<localStorage, repos, config, reposLoading, syncStatus,
                   currentRepoListed>>

\* A catch block that also empties the catalog.
ReposFailureClearing(i) ==
    /\ UNCHANGED <<localStorage, currentRepoListed>>
    /\ IF phase = "mounted"
       THEN CommitCatalog(JArray(<<>>), config, FALSE, "failed", RemoveAt(reposFetches, i))
       ELSE /\ reposFetches' = RemoveAt(reposFetches, i)
            /\ UNCHANGED <<repos, config, reposLoading, syncStatus>>

\* Lines 193-198: catch and finally. The state setters of an application
\* that has crashed do nothing.
ReposFailure(i) ==
    /\ UNCHANGED <<localStorage, currentRepoListed>>
    /\ IF phase = "mounted"
       THEN CommitCatalog(repos, config, FALSE, "failed", RemoveAt(reposFetches, i))
       ELSE /\ reposFetches' = RemoveAt(reposFetches, i)
            /\ UNCHANGED <<repos, config, reposLoading, syncStatus>>

\* A success path that keeps the collection in the order of the reply.
ReposSuccessUnsorted(i, reply) ==
    LET processed == reply.data.items
    IN  /\ localStorage' =
               [localStorage EXCEPT !.botxlab_cache_v6 = Item(JSONstringify(processed))]
        /\ IF phase = "mounted"
           THEN /\ CommitCatalog(JArray(processed), config, FALSE, "success",
                                 RemoveAt(reposFetches, i))
                /\ currentRepoListed' = FALSE
           ELSE /\ reposFetches' = RemoveAt(reposFetches, i)
                /\ UNCHANGED <<repos, config, reposLoading, syncStatus, currentRepoListed>>

\* A success path that writes the loaded collection followed by the cached
\* repositories it does not hold.
ReposSuccessMerging(i, reply) ==
    LET processed == SortByUpdated(reply.data.items)
        old == InitialRepos(localStorage.botxlab_cache_v6)
        loaded(r) == \E k \in DOMAIN processed : processed[k].id = r.id
        kept == IF IsArray(old) THEN SelectSeq(old.items, LAMBDA r : ~loaded(r)) ELSE <<>>
    IN  /\ localStorage' =
               [localStorage EXCEPT
                   !.botxlab_cache_v6 = Item(JSONstringify(processed \o kept))]
        /\ IF phase = "mounted"
           THEN /\ CommitCatalog(JArray(processed), config, FALSE, "success",
                                 RemoveAt(reposFetches, i))
                /\ currentRepoListed' = FALSE
           ELSE /\ reposFetches' = RemoveAt(reposFetches, i)
                /\ UNCHANGED <<repos, config, reposLoading, syncStatus, currentRepoListed>>

\* A success path that caches the collection in the order of the reply.
ReposSuccessCachingReply(i, reply) ==
    LET processed == SortByUpdated(reply.data.items)
    IN  /\ localStorage' =
               [localStorage EXCEPT
                   !.botxlab_cache_v6 = Item(JSONstringify(reply.data.items))]
        /\ IF phase = "mounted"
           THEN /\ CommitCatalog(JArray(processed), config, FALSE, "success",
                                 RemoveAt(reposFetches, i))
                /\ currentRepoListed' = FALSE
           ELSE /\ reposFetches' = RemoveAt(reposFetches, i)
                /\ UNCHANGED <<repos, config, reposLoading, syncStatus, currentRepoListed>>

\* Lines 183-192 and 197: sort, setRepos, localStorage.setItem, setSyncStatus.
ReposSuccess(i, reply) ==
    LET processed == SortByUpdated(reply.data.items)
    IN  /\ localStorage' =
               [localStorage EXCEPT !.botxlab_cache_v6 = Item(JSONstringify(processed))]
        /\ IF phase = "mounted"
           THEN /\ CommitCatalog(JArray(processed), config, FALSE, "success",
                                 RemoveAt(reposFetches, i))
                /\ currentRepoListed' = FALSE
           ELSE /\ reposFetches' = RemoveAt(reposFetches, i)
                /\ UNCHANGED <<repos, config, reposLoading, syncStatus, currentRepoListed>>

\* A suspended fetchRepos call resumes with the reply to its request
\* (lines 175-198).
ReposResponse(i, reply) ==
    /\ phase # "constructed"
    /\ UNCHANGED <<renderVars, tocVars>>
    /\ IF FallsBackToUser(reposFetches[i], reply) THEN ReposFallback(i)
       ELSE IF ReposReplyThrows(reply) THEN ReposFailure(i)
       ELSE ReposSuccess(i, reply)
    /\ UNCHANGED <<currentRepo, view, activeTab, contentLoading, contentError,
                   readmeContent, releases, commits, collaborators, contentFetches>>
    /\ phase' = IF phase = "mounted" THEN AfterRender' ELSE phase

\* The account input of the settings form (line 730).
SetConfigOrg(h) ==
    /\ phase = "mounted"
    /\ h # config.org
    /\ UNCHANGED <<renderVars, tocVars>>
    /\ CommitCatalog(repos, [config EXCEPT !.org = h], reposLoading, syncStatus, reposFetches)
    /\ UNCHANGED <<localStorage, contentVars, phase>>

\* The credential input of the settings form (line 737).
SetConfigToken(t) ==
    /\ phase = "mounted"
    /\ t # config.token
    /\ UNCHANGED renderVars
    /\ CommitCatalog(repos, [config EXCEPT !.token = t], reposLoading, syncStatus, reposFetches)
    /\ CommitContent(view, activeTab, currentRepo, FALSE, t)
    /\ UNCHANGED <<localStorage, currentRepoListed>>
    /\ phase' = AfterRender'
    /\ TocEffects

\* The Save Changes button (lines 747-752).
SaveChanges ==
    /\ phase = "mounted"
    /\ UNCHANGED <<renderVars, tocVars>>
    /\ localStorage' = [localStorage EXCEPT
                           !.botxlab_token = Item(StringText(config.token)),
                           !.botxlab_org = Item(StringText(config.org))]
    /\ CommitCatalog(JArray(<<>>), config, reposLoading, syncStatus, reposFetches)
    /\ currentRepoListed' = FALSE
    /\ UNCHANGED <<currentRepo, view, activeTab, contentLoading, contentError,
                   readmeContent, releases, commits, collaborators, contentFetches, phase>>

\* The page is loaded again: a new session is constructed from localStorage,
\* and the calls of the old one are gone with it.
Reload ==
    /\ phase # "constructed"
    /\ repos' = InitialRepos(localStorage.botxlab_cache_v6)
    /\ config' = InitialConfig(localStorage)
    /\ reposLoading' = FALSE
    /\ syncStatus' = "idle"
    /\ reposFetches' = <<>>
    /\ currentRepo' = NoRepo
    /\ currentRepoListed' = FALSE
    /\ view' = "dashboard"
    /\ activeTab' = "readme"
    /\ contentLoading' = FALSE
    /\ contentError' = NULL
    /\ readmeContent' = EmptyText
    /\ releases' = JArray(<<>>)
    /\ commits' = JArray(<<>>)
    /\ collaborators' = JArray(<<>>)
    /\ contentFetches' = <<>>
    /\ phase' = "constructed"
    /\ searchTerm' = <<>>
    /\ markdownProps' = NoProps
    /\ renderedUrl' = NoUrl
    /\ toc' = <<>>
    /\ tocFramePending' = FALSE
    /\ UNCHANGED localStorage

(* ------------------------- content actions ---------------------------- *)

\* handleOpenProject (lines 284-291), from a repository of the sidebar list
\* or of the dashboard cards; both are replaced by skeletons while
\* reposLoading (lines 367, 549).
HandleOpenProject(r) ==
    /\ phase = "mounted"
    /\ ~reposLoading
    /\ \E k \in DOMAIN repos.items : repos.items[k] = r
    /\ CommitContent("project", "readme", r, r # currentRepo \/ ~currentRepoListed,
                     config.token)
    /\ currentRepoListed' = TRUE
    /\ searchTerm' = <<>>
    /\ UNCHANGED <<catalogVars, markdownProps, renderedUrl>>
    /\ phase' = AfterRender'
    /\ TocEffects

\* A tab button (lines 434, 472), shown in the project view.
SetActiveTab(t) ==
    /\ phase = "mounted"
    /\ view = "project"
    /\ t # activeTab
    /\ UNCHANGED renderVars
    /\ CommitContent(view, t, currentRepo, FALSE, config.token)
    /\ UNCHANGED <<catalogVars, currentRepoListed>>
    /\ phase' = AfterRender'
    /\ TocEffects

\* The logo and the back button (lines 339, 410).
SetViewDashboard ==
    /\ phase = "mounted"
    /\ view = "project"
    /\ CommitContent("dashboard", activeTab, currentRepo, FALSE, config.token)
    /\ UNCHANGED renderVars
    /\ UNCHANGED <<catalogVars, currentRepoListed>>
    /\ phase' = AfterRender'
    /\ TocEffects

\* A loadContent that treats the empty collection of every tab as it treats
\* that of the commits tab.
LoadContentThrowsNoEmptyCheck(call, reply) ==
    IF reply.status = Rejected THEN FailedToFetch
    ELSE IF call.tab = "readme" /\ ~IsOk(reply) THEN "README not found"
    ELSE NULL

\* What the try block of loadContent throws with this reply, NULL when it
\* completes (lines 217-239).
LoadContentThrows(call, reply) ==
    IF reply.status = Rejected THEN FailedToFetch
    ELSE IF call.tab = "readme"
         THEN IF ~IsOk(reply) THEN "README not found" ELSE NULL
    ELSE IF call.tab = "releases"
         THEN IF IsArray(reply.data) /\ Len(reply.data.items) = 0
              THEN "No releases found" ELSE NULL
    ELSE IF call.tab = "collaborators"
         THEN IF IsArray(reply.data) /\ Len(reply.data.items) = 0
              THEN "No contributors found" ELSE NULL
    ELSE NULL

\* A continuation that keeps the loading flag while any call is suspended.
ContentResponseWaitingForAll(i, reply) ==
    LET call == contentFetches[i]
        thrown == LoadContentThrows(call, reply)
        received == reply.status # Rejected
    IN  /\ phase # "constructed"
        /\ contentFetches' = RemoveAt(contentFetches, i)
        /\ IF phase = "mounted"
           THEN /\ readmeContent' =
                       IF call.tab = "readme" /\ thrown = NULL THEN reply.data
                       ELSE readmeContent
                /\ releases' =
                       IF call.tab = "releases" /\ received THEN reply.data ELSE releases
                /\ commits' =
                       IF call.tab = "commits" /\ received THEN reply.data ELSE commits
                /\ collaborators' =
                       IF call.tab = "collaborators" /\ received THEN reply.data
                       ELSE collaborators
                /\ contentError' = IF thrown # NULL THEN thrown ELSE contentError
                /\ contentLoading' = (Len(contentFetches') > 0)
           ELSE UNCHANGED <<readmeContent, releases, commits, collaborators,
                            contentError, contentLoading>>
        /\ UNCHANGED <<catalogVars, currentRepo, currentRepoListed, view, activeTab,
                       renderVars>>
        /\ phase' = IF phase = "mounted" THEN AfterRender' ELSE phase
        /\ TocEffects

\* A continuation that clears the loading flag in the try block, not in a
\* finally block.
ContentResponseWithoutFinally(i, reply) ==
    LET call == contentFetches[i]
        thrown == LoadContentThrows(call, reply)
        received == reply.status # Rejected
    IN  /\ phase # "constructed"
        /\ contentFetches' = RemoveAt(contentFetches, i)
        /\ IF phase = "mounted"
           THEN /\ readmeContent' =
                       IF call.tab = "readme" /\ thrown = NULL THEN reply.data
                       ELSE readmeContent
                /\ releases' =
                       IF call.tab = "releases" /\ received THEN reply.data ELSE releases
                /\ commits' =
                       IF call.tab = "commits" /\ received THEN reply.data ELSE commits
                /\ collaborators' =
                       IF call.tab = "collaborators" /\ received THEN reply.data
                       ELSE collaborators
                /\ contentError' = IF thrown # NULL THEN thrown ELSE contentError
                /\ contentLoading' = IF thrown = NULL THEN FALSE ELSE contentLoading
           ELSE UNCHANGED <<readmeContent, releases, commits, collaborators,
                            contentError, contentLoading>>
        /\ UNCHANGED <<catalogVars, currentRepo, currentRepoListed, view, activeTab,
                       renderVars>>
        /\ phase' = IF phase = "mounted" THEN AfterRender' ELSE phase
        /\ TocEffects

\* A suspended loadContent call resumes with the reply to its request
\* (lines 218-244); the tab and the repository are those of its closure.
ContentResponse(i, reply) ==
    LET call == contentFetches[i]
        thrown == LoadContentThrows(call, reply)
        received == reply.status # Rejected
    IN  /\ phase # "constructed"
        /\ contentFetches' = RemoveAt(contentFetches, i)
        /\ IF phase = "mounted"
           THEN /\ readmeContent' =
                       IF call.tab = "readme" /\ thrown = NULL THEN reply.data
                       ELSE readmeContent
                /\ releases' =
                       IF call.tab = "releases" /\ received THEN reply.data ELSE releases
                /\ commits' =
                       IF call.tab = "commits" /\ received THEN reply.data ELSE commits
                /\ collaborators' =
                       IF call.tab = "collaborators" /\ received THEN reply.data
                       ELSE collaborators
                /\ contentError' = IF thrown # NULL THEN thrown ELSE contentError
                /\ contentLoading' = FALSE
           ELSE UNCHANGED <<readmeContent, releases, commits, collaborators,
                            contentError, contentLoading>>
        /\ UNCHANGED <<catalogVars, currentRepo, currentRepoListed, view, activeTab,
                       renderVars>>
        /\ phase' = IF phase = "mounted" THEN AfterRender' ELSE phase
        /\ TocEffects

\* The replies the request of a suspended loadContent call can get.
ContentReplies(call) ==
    IF call.tab = "readme" THEN ReadmeReplies(call.repo) ELSE ListReplies(call.repo)

(* ------------------ the requests (lines 162-166) ----------------------- *)

\* A header that is not sent.
NoHeader == "<none>"

\* getHeaders (lines 162-166), of the credential of its closure.
GetHeaders(token) ==
    [Accept |-> "application/vnd.github.v3+json",
     Authorization |-> IF token # "" THEN "Bearer " \o token ELSE NoHeader]

\* What a suspended fetchRepos call has passed to fetch (lines 174-175,
\* 178-179).
ListingRequest(call) ==
    [endpoint |-> call.endpoint, handle |-> call.org, headers |-> GetHeaders(call.token)]

\* A README request whose headers are the Accept override alone.
ContentRequestWithoutSpread(call) ==
    [repo |-> call.repo, tab |-> call.tab,
     headers |-> IF call.tab = "readme"
                 THEN [Accept |-> "application/vnd.github.v3.raw", Authorization |-> NoHeader]
                 ELSE GetHeaders(call.token)]

\* What a suspended loadContent call has passed to fetch (lines 218-220,
\* 225, 231, 235).
ContentRequest(call) ==
    [repo |-> call.repo, tab |-> call.tab,
     headers |-> IF call.tab = "readme"
                 THEN [GetHeaders(call.token) EXCEPT !.Accept = "application/vnd.github.v3.raw"]
                 ELSE GetHeaders(call.token)]

(* ---------------- markdownComponents (lines 301-320) ------------------- *)

\* A string is the sequence of its characters; a word no test looks into
\* (a host, a file name) is one element.
\* String.prototype.startsWith
StartsWith(str, prefix) ==
    Len(str) >= Len(prefix) /\ SubSeq(str, 1, Len(prefix)) = prefix

\* url.replace(/^\.\//, ''), lines 306 and 315.
CleanPath(url) ==
    IF StartsWith(url, <<".", "/">>) THEN SubSeq(url, 3, Len(url)) ELSE url

\* The literals of lines 304 and 313.
HttpPrefix == <<"h", "t", "t", "p">>
DataPrefix == <<"d", "a", "t", "a", ":">>
HashPrefix == <<"#">>
MailtoPrefix == <<"m", "a", "i", "l", "t", "o", ":">>

\* The hosts of lines 307 and 316.
RawHost == <<"h", "t", "t", "p", "s", ":", "/", "/", "raw.githubusercontent.com">>
WebHost == <<"h", "t", "t", "p", "s", ":", "/", "/", "github.com">>

\* currentRepo.default_branch || 'master'
BranchOf(repo) ==
    IF repo.default_branch = <<>> THEN <<"master">> ELSE repo.default_branch

\* The src the img component gives its element (lines 302-310).
MarkdownImg(url, repo) ==
    IF repo # NoRepo /\ ~StartsWith(url, HttpPrefix) /\ ~StartsWith(url, DataPrefix)
    THEN RawHost \o <<"/">> \o repo.full_name \o <<"/">> \o BranchOf(repo)
             \o <<"/">> \o CleanPath(url)
    ELSE url

\* The href the a component gives its element (lines 311-319).
MarkdownA(url, repo) ==
    IF /\ repo # NoRepo /\ ~StartsWith(url, HttpPrefix)
       /\ ~StartsWith(url, HashPrefix) /\ ~StartsWith(url, MailtoPrefix)
    THEN WebHost \o <<"/">> \o repo.full_name \o <<"/", "blob", "/">> \o BranchOf(repo)
             \o <<"/">> \o CleanPath(url)
    ELSE url

\* The src and href values the markdown of a README holds: a prefix followed
\* by a remainder.
UrlPrefixes ==
    {<<>>, <<".", "/">>, <<".", "/", ".", "/">>, <<".", ".", "/">>, <<"/">>,
     HashPrefix, MailtoPrefix, DataPrefix, HttpPrefix,
     <<"h", "t", "t", "p", ":", "/", "/">>,
     <<"h", "t", "t", "p", "s", ":", "/", "/">>,
     <<"f", "t", "p", ":", "/", "/">>}
UrlRests ==
    {<<>>, <<"a">>, <<"img", "/", "a.png">>, <<"section-1">>, <<"docs", "#", "usage">>}
Urls == {prefix \o rest : prefix \in UrlPrefixes, rest \in UrlRests}

\* ReactMarkdown renders an img or an a element of the README shown
\* (lines 600-609), with the component of markdownComponents.
RenderMarkdown(tag, url) ==
    /\ phase = "mounted" /\ view = "project" /\ activeTab = "readme"
    /\ ~contentLoading /\ contentError = NULL
    /\ markdownProps' = [tag |-> tag, url |-> url]
    /\ renderedUrl' = IF tag = "img" THEN MarkdownImg(url, currentRepo)
                      ELSE MarkdownA(url, currentRepo)
    /\ UNCHANGED <<catalogVars, contentVars, phase, searchTerm, tocVars>>

(* ------------------- filteredRepos (lines 268-271) --------------------- *)

UpperCase ==
    <<"A", "B", "C", "D", "E", "F", "G", "H", "I", "J", "K", "L", "M",
      "N", "O", "P", "Q", "R", "S", "T", "U", "V", "W", "X", "Y", "Z">>
LowerCase ==
    <<"a", "b", "c", "d", "e", "f", "g", "h", "i", "j", "k", "l", "m",
      "n", "o", "p", "q", "r", "s", "t", "u", "v", "w", "x", "y", "z">>

\* String.prototype.toLowerCase, on the characters of the model.
ToLowerCase(str) ==
    [k \in DOMAIN str |->
        IF \E n \in DOMAIN UpperCase : UpperCase[n] = str[k]
        THEN LowerCase[CHOOSE n \in DOMAIN UpperCase : UpperCase[n] = str[k]]
        ELSE str[k]]

\* String.prototype.includes
Includes(str, sub) ==
    \E at \in 0..(Len(str) - Len(sub)) : SubSeq(str, at + 1, at + Len(sub)) = sub

\* A filter that compares the name and the term as they are.
filteredReposCaseSensitive ==
    SelectSeq(repos.items, LAMBDA r : Includes(r.name, searchTerm))

\* repos.filter(r => r.name.toLowerCase().includes(searchTerm.toLowerCase()))
filteredRepos ==
    SelectSeq(repos.items,
              LAMBDA r : Includes(ToLowerCase(r.name), ToLowerCase(searchTerm)))

\* The search input (line 355).
SetSearchTerm(term) ==
    /\ phase = "mounted"
    /\ term # searchTerm
    /\ searchTerm' = term
    /\ UNCHANGED <<catalogVars, contentVars, phase, markdownProps, renderedUrl, tocVars>>

(* ------------------------ stats (lines 272-281) ------------------------ *)

\* r.language: null, or undefined in a repository that has no such field.
LanguageOf(r) == IF "language" \in DOMAIN r THEN r.language ELSE NULL

\* repos.map(r => r.language).filter(Boolean)
LanguagesOf(items) ==
    SelectSeq([k \in DOMAIN items |-> LanguageOf(items[k])],
              LAMBDA l : l # NULL /\ l # "")

\* languages.filter(v => v === a).length
Occurrences(languages, a) ==
    Cardinality({k \in DOMAIN languages : languages[k] = a})

\* A comparator that orders by the number of occurrences, most first.
CompareOccurrencesDesc(languages, a, b) ==
    Occurrences(languages, b) - Occurrences(languages, a)

\* The comparator of lines 276-277; the array it counts in is the one being
\* sorted, which keeps its elements until the sort has ended.
CompareOccurrences(languages, a, b) ==
    Occurrences(languages, a) - Occurrences(languages, b)

RECURSIVE InsertByOccurrences(_, _, _)
InsertByOccurrences(languages, x, sorted) ==
    IF sorted = <<>> THEN <<x>>
    ELSE IF CompareOccurrences(languages, sorted[1], x) <= 0
         THEN <<sorted[1]>> \o InsertByOccurrences(languages, x, Tail(sorted))
    ELSE <<x>> \o sorted

RECURSIVE SortByOccurrencesFrom(_, _, _)
SortByOccurrencesFrom(languages, done, rest) ==
    IF rest = <<>> THEN done
    ELSE SortByOccurrencesFrom(languages, InsertByOccurrences(languages, rest[1], done),
                               Tail(rest))

\* languages.sort(...).pop() || 'None'
TopLang(items) ==
    LET languages == LanguagesOf(items)
        sorted == SortByOccurrencesFrom(languages, <<>>, languages)
    IN  IF sorted = <<>> THEN "None" ELSE sorted[Len(sorted)]

\* The topLang of the stats of the catalog shown.
topLang == TopLang(repos.items)

(* --------------------------- specifications -------------------------- *)

\* The catalog half of the application: startup from any cache, refreshes,
\* the account field of the settings form, Save Changes and new sessions.
\* No project is opened, so the content state stays as constructed; the
\* credential stays the empty one no session has saved.
InitCatalog ==
    /\ localStorage \in [botxlab_cache_v6 : StoredCaches,
                         botxlab_org : StoredStrings(Handles),
                         botxlab_token : {Absent}]
    /\ Constructed

NextCatalog ==
    \/ Mount
    \/ Refresh
    \/ \E i \in DOMAIN reposFetches : \E reply \in ListingReplies : ReposResponse(i, reply)
    \/ \E h \in Handles : SetConfigOrg(h)
    \/ SaveChanges
    \/ Reload

SpecCatalog == InitCatalog /\ [][NextCatalog]_vars

\* The catalog of every repository, the timestamps spread over Times.
FullCatalog ==
    SortByUpdated([i \in RepoIds |-> [id |-> i, updated_at |-> ((i - 1) % NumTimes) + 1]])

\* A session constructed from the cache an earlier session wrote after it
\* loaded FullCatalog, the settings never saved.
InitContent ==
    /\ localStorage = [botxlab_cache_v6 |-> Item(JSONstringify(FullCatalog)),
                       botxlab_org |-> Absent,
                       botxlab_token |-> Absent]
    /\ Constructed

\* The content half of the application: a session with a rehydrated catalog
\* in which projects are opened, tabs switched and the credential field of
\* the settings form edited, with no listing request under way.
NextContent ==
    \/ Mount
    \/ \E r \in Repo : HandleOpenProject(r)
    \/ \E t \in TabState : SetActiveTab(t)
    \/ SetViewDashboard
    \/ \E t \in Tokens : SetConfigToken(t)
    \/ \E i \in DOMAIN contentFetches :
          \E reply \in ContentReplies(contentFetches[i]) : ContentResponse(i, reply)

SpecContent == InitContent /\ [][NextContent]_vars

\* The repositories whose README is rendered, with the fields the
\* components read.
ProjectRepos ==
    {[id |-> 1, updated_at |-> 1,
      full_name |-> <<"acme", "/", "widgets">>, default_branch |-> <<"main">>],
     [id |-> 2, updated_at |-> 2,
      full_name |-> <<"botxlab", "/", "core">>, default_branch |-> <<"dev">>]}

\* A session that shows the README of a repository of a rehydrated catalog.
InitLinks ==
    \E r \in ProjectRepos :
        /\ localStorage = [botxlab_cache_v6 |-> Item(JSONstringify(<<r>>)),
                           botxlab_org |-> Absent,
                           botxlab_token |-> Absent]
        /\ repos = JArray(<<r>>)
        /\ config = InitialConfig(localStorage)
        /\ reposLoading = FALSE
        /\ syncStatus = "idle"
        /\ reposFetches = <<>>
        /\ currentRepo = r
        /\ currentRepoListed = TRUE
        /\ view = "project"
        /\ activeTab = "readme"
        /\ contentLoading = FALSE
        /\ contentError = NULL
        /\ readmeContent = ReadmeBody(r.id)
        /\ releases = JArray(<<>>)
        /\ commits = JArray(<<>>)
        /\ collaborators = JArray(<<>>)
        /\ contentFetches = <<>>
        /\ phase = "mounted"
        /\ searchTerm = <<>>
        /\ markdownProps = NoProps
        /\ renderedUrl = NoUrl
        /\ toc = <<>>
        /\ tocFramePending = TRUE

\* The rendering of the links and images of the README shown.
NextLinks ==
    \E tag \in {"img", "a"} : \E url \in Urls : RenderMarkdown(tag, url)

SpecLinks == InitLinks /\ [][NextLinks]_vars

\* The names of the repositories and the terms typed into the search input.
RepoNames ==
    {<<"B", "o", "t">>, <<"r", "o", "b", "O", "T">>, <<"w", "i", "d">>, <<"b", "o">>}
SearchTerms ==
    {<<>>, <<"b", "o", "t">>, <<"B", "O", "T">>, <<"o">>, <<"o", "t">>, <<"d">>,
     <<"x">>, <<"b", "o", "t", "s">>, <<"r", "o", "b", "o", "t", "i", "c">>}

\* The catalogs of named repositories a session holds: each repository at
\* most once, in the order fetchRepos leaves them in.
NamedCatalogs ==
    {s \in SeqsUpTo([id : RepoIds, updated_at : Times, name : RepoNames], NumRepoIds) :
        /\ \A i, j \in DOMAIN s : i # j => (s[i].id # s[j].id /\ s[i].name # s[j].name)
        /\ s = SortByUpdated(s)}

\* A session that shows the dashboard of a rehydrated catalog.
InitSearch ==
    \E catalog \in NamedCatalogs :
        /\ localStorage = [botxlab_cache_v6 |-> Item(JSONstringify(catalog)),
                           botxlab_org |-> Absent,
                           botxlab_token |-> Absent]
        /\ repos = JArray(catalog)
        /\ config = InitialConfig(localStorage)
        /\ reposLoading = FALSE
        /\ syncStatus = "idle"
        /\ reposFetches = <<>>
        /\ currentRepo = NoRepo
        /\ currentRepoListed = FALSE
        /\ view = "dashboard"
        /\ activeTab = "readme"
        /\ contentLoading = FALSE
        /\ contentError = NULL
        /\ readmeContent = EmptyText
        /\ releases = JArray(<<>>)
        /\ commits = JArray(<<>>)
        /\ collaborators = JArray(<<>>)
        /\ contentFetches = <<>>
        /\ phase = "mounted"
        /\ searchTerm = <<>>
        /\ markdownProps = NoProps
        /\ renderedUrl = NoUrl
        /\ toc = <<>>
        /\ tocFramePending = FALSE

\* The search of the sidebar.
NextSearch ==
    \E term \in SearchTerms : SetSearchTerm(term)

SpecSearch == InitSearch /\ [][NextSearch]_vars

\* The requests of a session: one that starts without a cache or with the
\* cache of FullCatalog, with or without a saved credential; listings are
\* refreshed, projects opened, tabs switched and the credential edited. The
\* listing answers with FullCatalog or fails, and the content requests are
\* rejected, so that the state is that of the calls.
InitRequests ==
    /\ localStorage \in [botxlab_cache_v6 : {Absent, Item(JSONstringify(FullCatalog))},
                         botxlab_org : {Absent},
                         botxlab_token : StoredStrings(Tokens)]
    /\ Constructed

NextRequests ==
    \/ Mount
    \/ Refresh
    \/ \E i \in DOMAIN reposFetches :
          \E reply \in {r \in ListingReplies : r.status = 200 => r.data = JArray(FullCatalog)} :
              ReposResponse(i, reply)
    \/ \E t \in Tokens : SetConfigToken(t)
    \/ \E r \in Repo : HandleOpenProject(r)
    \/ \E t \in TabState : SetActiveTab(t)
    \/ SetViewDashboard
    \/ \E i \in DOMAIN contentFetches :
          \E reply \in {r \in ContentReplies(contentFetches[i]) : r.status = Rejected} :
              ContentResponse(i, reply)

SpecRequests == InitRequests /\ [][NextRequests]_vars

\* Startup from any cache, refreshes with any answer and loads of the README
\* and the releases of the repositories of the catalog; the settings are
\* never touched.
InitAgreement ==
    /\ localStorage \in [botxlab_cache_v6 : StoredCaches,
                         botxlab_org : {Absent},
                         botxlab_token : {Absent}]
    /\ Constructed

\* The tabs that are switched between: the text tab and one list tab.
AgreementTabs == {"readme", "releases"}

\* The answers to a content request: it is rejected or succeeds.
AgreementReplies(call) == {r \in ContentReplies(call) : r.status \in {Rejected, 200}}

NextAgreement ==
    \/ Mount
    \/ Refresh
    \/ \E i \in DOMAIN reposFetches : \E reply \in ListingReplies : ReposResponse(i, reply)
    \/ \E r \in Repo : HandleOpenProject(r)
    \/ \E t \in AgreementTabs : SetActiveTab(t)
    \/ \E i \in DOMAIN contentFetches :
          \E reply \in AgreementReplies(contentFetches[i]) : ContentResponse(i, reply)

SpecAgreement == InitAgreement /\ [][NextAgreement]_vars

\* A session left to itself: it starts from any cache and any saved handle,
\* and the settings form and the Refresh button are never used, so that
\* every listing request is one the Initial Fetch effect issued. The first
\* render happens and every request is answered, whatever the answer.
InitNoLoop == InitCatalog

NextNoLoop ==
    \/ Mount
    \/ \E i \in DOMAIN reposFetches : \E reply \in ListingReplies : ReposResponse(i, reply)

SpecNoLoop ==
    /\ InitNoLoop /\ [][NextNoLoop]_vars
    /\ WF_vars(Mount)
    /\ WF_vars(\E i \in DOMAIN reposFetches : \E reply \in ListingReplies : ReposResponse(i, reply))

\* The primary languages of the repositories; NULL is no language.
Languages == {NULL, "Go", "Rust"}

\* The catalogs whose statistics the dashboard shows: repositories 1, 2, ...
\* of one timestamp, each with any language or none.
LanguageCatalogs ==
    {[k \in 1..n |-> [id |-> k, updated_at |-> 1, language |-> choice[k]]] :
        n \in 0..MaxStatRepos, choice \in [1..MaxStatRepos -> Languages]}

\* A session that shows the dashboard of a rehydrated catalog.
InitStats ==
    \E catalog \in LanguageCatalogs :
        /\ localStorage = [botxlab_cache_v6 |-> Item(JSONstringify(catalog)),
                           botxlab_org |-> Absent,
                           botxlab_token |-> Absent]
        /\ repos = JArray(catalog)
        /\ config = InitialConfig(localStorage)
        /\ reposLoading = FALSE
        /\ syncStatus = "idle"
        /\ reposFetches = <<>>
        /\ currentRepo = NoRepo
        /\ currentRepoListed = FALSE
        /\ view = "dashboard"
        /\ activeTab = "readme"
        /\ contentLoading = FALSE
        /\ contentError = NULL
        /\ readmeContent = EmptyText
        /\ releases = JArray(<<>>)
        /\ commits = JArray(<<>>)
        /\ collaborators = JArray(<<>>)
        /\ contentFetches = <<>>
        /\ phase = "mounted"
        /\ searchTerm = <<>>
        /\ markdownProps = NoProps
        /\ renderedUrl = NoUrl
        /\ toc = <<>>
        /\ tocFramePending = FALSE

\* The statistics of the dashboard, recomputed when the catalog changes:
\* refreshes (whose repositories carry no language) and Save Changes.
NextStats ==
    \/ Refresh
    \/ \E i \in DOMAIN reposFetches : \E reply \in ListingReplies : ReposResponse(i, reply)
    \/ SaveChanges

SpecStats == InitStats /\ [][NextStats]_vars

\* The content half of the application with the animation frames of the
\* TOC effect.
NextToc ==
    \/ NextContent
    \/ TocFrame

SpecToc == InitContent /\ [][NextToc]_vars

\* The whole application: the two halves together, from any stored state.
Next ==
    \/ NextCatalog
    \/ NextContent
    \/ NextLinks
    \/ NextSearch
    \/ TocFrame

Spec == Init /\ [][Next]_vars

(* ------------------------------ claims -------------------------------- *)

\* A transport failure or a non-success status.
ReplyFailed(reply) == reply.status < 200 \/ reply.status > 299

\* The call is the load of the selection that is shown.
IsCurrentLoad(call) ==
    view = "project" /\ call.repo = currentRepo.id /\ call.tab = activeTab

\* The content of the shown tab is content of repository id.
VisibleContentIsOf(id) ==
    IF activeTab = "readme" THEN readmeContent = ReadmeBody(id)
    ELSE LET shown == IF activeTab = "releases" THEN releases
                      ELSE IF activeTab = "commits" THEN commits
                      ELSE collaborators
         IN  IsArray(shown) /\ \A k \in DOMAIN shown.items : shown.items[k].repo = id

\* C1: once every content fetch has settled, the content that is shown
\* (no loading, no failure) is content of the selected repository; a late
\* result of an earlier selection is never what is shown.
C1_StaleContentDiscarded ==
    (/\ phase = "mounted" /\ view = "project"
     /\ contentFetches = <<>> /\ ~contentLoading /\ contentError = NULL)
        => VisibleContentIsOf(currentRepo.id)

\* The two sequences hold the same elements.
SameElements(s, t) ==
    Len(s) = Len(t) /\ {s[k] : k \in DOMAIN s} = {t[k] : k \in DOMAIN t}

\* C2: every step in which a fetchRepos call completes with a successful
\* reply leaves the catalog holding the loaded repositories in updated_at
\* descending order.
C2_SortedAfterLoad ==
    [][\A i \in DOMAIN reposFetches : \A reply \in ListingReplies :
          (phase = "mounted" /\ ReposResponse(i, reply) /\ ~ReplyFailed(reply))
              => /\ SortedDesc(repos'.items)
                 /\ SameElements(repos'.items, reply.data.items)]_vars

\* A load of two repositories of different timestamps has completed.
C2_Witness ==
    /\ phase = "mounted" /\ syncStatus = "success"
    /\ Len(repos.items) >= 2
    /\ repos.items[1].updated_at > repos.items[2].updated_at

UsersCount(fetches) ==
    Cardinality({k \in DOMAIN fetches : fetches[k].endpoint = "users"})

\* C3: a request to the user endpoint is only ever the continuation of a
\* call suspended on the organization endpoint; a call goes on to the user
\* endpoint, once and with the same handle and credential, if and only if
\* the organization reply is a 404; and a 404 from the user endpoint ends
\* the call as failed, with no further request and the catalog and the cache
\* as they were.
C3_OrgThenUserOnce ==
    [][/\ UsersCount(reposFetches') > UsersCount(reposFetches)
            => \E i \in DOMAIN reposFetches :
                   /\ reposFetches[i].endpoint = "orgs"
                   /\ reposFetches' = [reposFetches EXCEPT ![i].endpoint = "users"]
       /\ \A i \in DOMAIN reposFetches : \A reply \in ListingReplies :
             ReposResponse(i, reply) =>
                 LET call == reposFetches[i]
                     orgNotFound == call.endpoint = "orgs" /\ reply.status = 404
                 IN  /\ orgNotFound =>
                            /\ reposFetches' =
                                   [reposFetches EXCEPT
                                       ![i] = [org |-> call.org, token |-> call.token,
                                               endpoint |-> "users"]]
                            /\ repos' = repos /\ syncStatus' = syncStatus
                     /\ ~orgNotFound =>
                            UsersCount(reposFetches') =
                                UsersCount(reposFetches)
                                    - (IF call.endpoint = "users" THEN 1 ELSE 0)
                     /\ (call.endpoint = "users" /\ reply.status = 404 /\ phase = "mounted") =>
                            /\ syncStatus' = "failed"
                            /\ reposFetches' = RemoveAt(reposFetches, i)
                            /\ repos' = repos
                            /\ localStorage' = localStorage]_vars

\* A call has gone on to the user endpoint.
C3_Witness ==
    \E k \in DOMAIN reposFetches : reposFetches[k].endpoint = "users"

\* C4: every step in which a fetchRepos call ends on a transport failure or
\* a non-success status leaves the catalog and localStorage as they were
\* (as it leaves the configuration and the content state), and sets the sync
\* status to failed and the loading flag to false.
C4_FailedRefreshKeepsCatalog ==
    [][\A i \in DOMAIN reposFetches : \A reply \in ListingReplies :
          (/\ ReposResponse(i, reply) /\ ReplyFailed(reply)
           /\ ~(reposFetches[i].endpoint = "orgs" /\ reply.status = 404))
              => /\ repos' = repos
                 /\ localStorage' = localStorage
                 /\ config' = config
                 /\ UNCHANGED contentVars
                 /\ phase = "mounted" => (syncStatus' = "failed" /\ ~reposLoading')]_vars

\* A refresh has failed over a catalog that holds repositories.
C4_Witness ==
    /\ phase = "mounted" /\ syncStatus = "failed" /\ ~reposLoading
    /\ Len(repos.items) > 0

\* C5: after every step in which a fetchRepos call writes its collection to
\* the cache, the initialiser of a new session, given what the cache holds,
\* yields the collection of the catalog: the same elements in the same order.
C5_CacheRoundTrip ==
    [][\A i \in DOMAIN reposFetches : \A reply \in ListingReplies :
          (phase = "mounted" /\ ReposResponse(i, reply) /\ ~ReplyFailed(reply))
              => /\ InitialRepos(localStorage'.botxlab_cache_v6) = repos'
                 /\ SameElements(repos'.items, reply.data.items)]_vars

\* A load of every repository has completed and is what the cache holds.
C5_Witness ==
    /\ phase = "mounted" /\ syncStatus = "success"
    /\ Len(repos.items) = NumRepoIds
    /\ localStorage.botxlab_cache_v6 = Item(JSONstringify(repos.items))

\* C6: whenever the cache key is absent, or holds text JSON.parse rejects, or
\* holds JSON that is no array, the session constructed from it has the empty
\* catalog, and the application does not crash.
C6_BadCacheIsEmptyCatalog ==
    LET saved == localStorage.botxlab_cache_v6
        parsed == JSONparse(saved.text)
        noArray == ~saved.present \/ ~parsed.ok \/ ~IsArray(parsed.value)
    IN  noArray => /\ phase = "constructed" => repos = JArray(<<>>)
                   /\ phase # "crashed"

\* C7: every step in which the load of any tab ends on a transport failure
\* or a non-success status sets a failure reason (that of the transport
\* error, for a transport failure), clears the loading flag, and leaves the
\* application running.
C7_FailedLoadEndsFailed ==
    [][\A i \in DOMAIN contentFetches : \A reply \in ContentReplies(contentFetches[i]) :
          (phase = "mounted" /\ ContentResponse(i, reply) /\ ReplyFailed(reply))
              => /\ contentError' # NULL
                 /\ reply.status = Rejected => contentError' = FailedToFetch
                 /\ ~contentLoading'
                 /\ phase' = "mounted"]_vars

\* The load of a list tab gets a successful reply with the empty collection.
EmptyListReply(call, reply, tab) ==
    call.tab = tab /\ ~ReplyFailed(reply) /\ reply.data = JArray(<<>>)

\* C8: every step in which the load of the releases tab (of the contributors
\* tab) completes with a successful, empty collection ends in the failed
\* state with the reason "No releases found" ("No contributors found").
C8_EmptyReleasesIsFailed ==
    [][\A i \in DOMAIN contentFetches : \A reply \in ContentReplies(contentFetches[i]) :
          (phase = "mounted" /\ ContentResponse(i, reply))
              => /\ EmptyListReply(contentFetches[i], reply, "releases")
                        => /\ contentError' = "No releases found"
                           /\ ~contentLoading' /\ phase' = "mounted"
                 /\ EmptyListReply(contentFetches[i], reply, "collaborators")
                        => /\ contentError' = "No contributors found"
                           /\ ~contentLoading' /\ phase' = "mounted"]_vars

\* The releases tab shows the failure of an empty release collection.
C8_Witness ==
    /\ phase = "mounted" /\ view = "project" /\ activeTab = "releases"
    /\ contentFetches = <<>> /\ ~contentLoading
    /\ releases = JArray(<<>>) /\ contentError = "No releases found"

\* C9: every step in which the load of the shown commits tab completes with
\* a successful, empty collection ends in the ready state: the empty commit
\* list, no loading, no failure reason.
C9_EmptyCommitsIsReady ==
    [][\A i \in DOMAIN contentFetches : \A reply \in ContentReplies(contentFetches[i]) :
          (/\ phase = "mounted" /\ ContentResponse(i, reply)
           /\ IsCurrentLoad(contentFetches[i])
           /\ EmptyListReply(contentFetches[i], reply, "commits"))
              => /\ commits' = JArray(<<>>)
                 /\ ~contentLoading'
                 /\ contentError' = NULL]_vars

\* C10: every step in which the load of the shown readme tab gets a 404 ends
\* in the failed state with the reason "README not found" and the empty
\* README content, and leaves the application running.
C10_MissingReadmeIsFailed ==
    [][\A i \in DOMAIN contentFetches : \A reply \in ContentReplies(contentFetches[i]) :
          (/\ phase = "mounted" /\ ContentResponse(i, reply)
           /\ IsCurrentLoad(contentFetches[i])
           /\ contentFetches[i].tab = "readme" /\ reply.status = 404)
              => /\ contentError' = "README not found"
                 /\ readmeContent' = EmptyText
                 /\ ~contentLoading'
                 /\ phase' = "mounted"]_vars

\* The step issues a content request.
ContentRequestIssued == Len(contentFetches') > Len(contentFetches)

\* The step changes what is selected: the view, the tab, or the repository
\* (another one, or the same one opened again from a reloaded list).
SelectionChanged ==
    \/ view' # view
    \/ activeTab' # activeTab
    \/ currentRepo' # currentRepo
    \/ currentRepoListed' # currentRepoListed

\* The shown selection is in the failed state, its load over.
ContentFailed ==
    /\ phase = "mounted" /\ view = "project"
    /\ contentError # NULL /\ ~contentLoading

ContentReady ==
    /\ phase = "mounted" /\ view = "project"
    /\ ~contentLoading /\ contentError = NULL

\* The step switches the shown project to another tab or repository.
SelectionSwitched ==
    /\ phase = "mounted" /\ phase' = "mounted" /\ view' = "project"
    /\ activeTab' # activeTab \/ currentRepo' # currentRepo

\* C12: every step that switches the tab or the repository issues a request
\* for the new pair, and whatever is shown as the ready content of the
\* selection, with or without requests under way, is content of the selected
\* repository.
C12_SwitchRefetchesAndShowsOwnContent ==
    [][/\ SelectionSwitched =>
             contentFetches' =
                 Append(contentFetches,
                        [repo |-> currentRepo'.id, tab |-> activeTab',
                         token |-> config'.token])
       /\ ContentReady' => VisibleContentIsOf(currentRepo.id)']_vars

\* C13: a session that has not rendered yet holds what the initialiser makes
\* of the cache and has issued no request; its first render leaves the
\* catalog as rehydrated and issues the organization listing request for the
\* configured handle if the catalog is the empty collection, and no request
\* otherwise.
C13_RehydrateThenFetchIfEmpty ==
    [][phase = "constructed" =>
          /\ reposFetches = <<>> /\ contentFetches = <<>>
          /\ repos = InitialRepos(localStorage.botxlab_cache_v6)
          /\ repos' = repos
          /\ contentFetches' = <<>>
          /\ reposFetches' =
                 IF repos = JArray(<<>>)
                 THEN <<[org |-> config.org, token |-> config.token, endpoint |-> "orgs"]>>
                 ELSE <<>>]_vars

\* A session has started from a cache that holds repositories and has
\* issued no listing request.
C13_Witness ==
    /\ phase = "mounted" /\ syncStatus = "idle" /\ reposFetches = <<>>
    /\ Len(repos.items) > 0
    /\ localStorage.botxlab_cache_v6 = Item(JSONstringify(repos.items))

\* C14: every step in which a fetchRepos call completes with a successful
\* reply leaves under the cache key the serialisation of the loaded
\* collection as sorted, which is the serialisation of the new catalog; read
\* back, it holds the repositories of the reply and no other, whatever the
\* key held before.
C14_CacheReplacedByLoad ==
    [][\A i \in DOMAIN reposFetches : \A reply \in ListingReplies :
          (phase = "mounted" /\ ReposResponse(i, reply) /\ ~ReplyFailed(reply))
              => LET written == localStorage'.botxlab_cache_v6
                     readBack == JSONparse(written.text)
                 IN  /\ written = Item(JSONstringify(SortByUpdated(reply.data.items)))
                     /\ written = Item(JSONstringify(repos'.items))
                     /\ readBack.ok /\ IsArray(readBack.value)
                     /\ {readBack.value.items[k] : k \in DOMAIN readBack.value.items}
                            = {reply.data.items[k] : k \in DOMAIN reply.data.items}
                     /\ Len(readBack.value.items) = Len(reply.data.items)]_vars

\* A load of a single repository has completed and is what the cache holds,
\* with no listing request under way.
C14_Witness ==
    /\ phase = "mounted" /\ syncStatus = "success" /\ reposFetches = <<>>
    /\ Len(repos.items) = 1
    /\ localStorage.botxlab_cache_v6 = Item(JSONstringify(repos.items))

\* C15: in every state (as constructed from the cache, mounted, after
\* successful and failed refreshes, after Save Changes, after a reload) the
\* repositories of the catalog are in updated_at descending order.
C15_CatalogAlwaysSorted ==
    IsArray(repos) => SortedDesc(repos.items)

\* A refresh has failed over a rehydrated or loaded catalog of repositories
\* of different timestamps.
C15_Witness ==
    /\ phase = "mounted" /\ syncStatus = "failed"
    /\ Len(repos.items) = NumRepoIds
    /\ repos.items[1].updated_at # repos.items[NumRepoIds].updated_at

IsLetter(c) ==
    c \in {"a", "b", "c", "d", "e", "f", "g", "h", "i", "j", "k", "l", "m",
           "n", "o", "p", "q", "r", "s", "t", "u", "v", "w", "x", "y", "z"}

\* The reference begins with a scheme: letters followed by a colon.
HasScheme(url) ==
    \E k \in 2..Len(url) : url[k] = ":" /\ \A j \in 1..(k - 1) : IsLetter(url[j])

\* The reference is a fragment of the page.
IsFragment(url) == Len(url) >= 1 /\ url[1] = "#"

\* The reference is relative to the repository.
IsRelative(url) == ~HasScheme(url) /\ ~IsFragment(url)

\* The reference without one leading "./".
WithoutDotSlash(url) ==
    IF Len(url) >= 2 /\ url[1] = "." /\ url[2] = "/"
    THEN [k \in 1..(Len(url) - 2) |-> url[k + 2]] ELSE url

\* An element has been rendered.
Rendered(tag) == markdownProps # NoProps /\ markdownProps.tag = tag

\* C16: whenever a link or an image whose reference begins with "#" has
\* been rendered, the element carries the reference as it was.
C16_FragmentNeverRewritten ==
    (markdownProps # NoProps /\ IsFragment(markdownProps.url))
        => renderedUrl = markdownProps.url

\* C17: whenever a link or an image has been rendered, a reference that
\* begins with a scheme (http, https, ftp, data, mailto, ...) is carried as
\* it was, and a relative reference (no scheme, no fragment), also one whose
\* first letters are "http", is not.
C17_AbsolutePassesRelativeRewritten ==
    markdownProps # NoProps =>
        /\ HasScheme(markdownProps.url) => renderedUrl = markdownProps.url
        /\ IsRelative(markdownProps.url) => renderedUrl # markdownProps.url

\* C18: whenever an image with a relative reference has been rendered, its
\* src is the raw-content host, the full name and the default branch of the
\* selected repository, and the reference without one leading "./", joined
\* by "/".
C18_RelativeImageToRaw ==
    (Rendered("img") /\ IsRelative(markdownProps.url))
        => renderedUrl =
               RawHost \o <<"/">> \o currentRepo.full_name \o <<"/">>
                   \o currentRepo.default_branch \o <<"/">>
                   \o WithoutDotSlash(markdownProps.url)

\* C19: whenever a link with a relative reference has been rendered, its
\* href is the web host, the full name of the selected repository, "blob",
\* its default branch, and the reference without one leading "./", joined
\* by "/".
C19_RelativeLinkToBlob ==
    (Rendered("a") /\ IsRelative(markdownProps.url))
        => renderedUrl =
               WebHost \o <<"/">> \o currentRepo.full_name \o <<"/", "blob", "/">>
                   \o currentRepo.default_branch \o <<"/">>
                   \o WithoutDotSlash(markdownProps.url)

\* The two characters are the same letter, in either case.
SameLetter(a, b) ==
    a = b \/ \E n \in DOMAIN UpperCase : {a, b} = {UpperCase[n], LowerCase[n]}

\* The term occurs in the name, letter for letter, whatever the case.
ContainsIgnoringCase(name, term) ==
    \E at \in 0..(Len(name) - Len(term)) :
        \A k \in 1..Len(term) : SameLetter(name[at + k], term[k])

\* The place of a repository in the catalog.
PlaceOf(r) == CHOOSE k \in DOMAIN repos.items : repos.items[k] = r

\* C20: the filtered list holds exactly the repositories of the catalog
\* whose name contains the search term whatever the case, each once and in
\* the order of the catalog; with the empty term it is the catalog.
C20_FilterBySubstring ==
    phase = "mounted" =>
        LET shown == filteredRepos
            matching == {k \in DOMAIN repos.items :
                            ContainsIgnoringCase(repos.items[k].name, searchTerm)}
        IN  /\ {shown[k] : k \in DOMAIN shown} = {repos.items[k] : k \in matching}
            /\ Len(shown) = Cardinality(matching)
            /\ \A i, j \in DOMAIN shown : i < j => PlaceOf(shown[i]) < PlaceOf(shown[j])
            /\ searchTerm = <<>> => shown = repos.items

\* A lower-case term has found the one repository of two whose name holds
\* it in upper case.
C20_Witness ==
    /\ phase = "mounted" /\ searchTerm = <<"o", "t">>
    /\ Len(repos.items) = 2 /\ Len(filteredRepos) = 1
    /\ filteredRepos[1].name = <<"r", "o", "b", "O", "T">>

\* The reply ends the call as failed: a transport failure, or a non-success
\* status that is not the 404 of the organization endpoint.
EndsCallFailed(call, reply) ==
    /\ ReplyFailed(reply)
    /\ call.endpoint = "users" \/ reply.status # 404

\* C21: every step in which a fetchRepos call gets a transport failure, a
\* non-success status other than 404 from the organization endpoint, or any
\* non-success status from the user endpoint ends that call with the sync
\* status failed: the call is gone, no request takes its place (no fallback),
\* and the catalog and the cache hold what they held.
C21_OtherFailuresEndFailed ==
    [][\A i \in DOMAIN reposFetches : \A reply \in ListingReplies :
          (/\ phase = "mounted" /\ ReposResponse(i, reply)
           /\ EndsCallFailed(reposFetches[i], reply))
              => /\ syncStatus' = "failed"
                 /\ reposFetches' = RemoveAt(reposFetches, i)
                 /\ UsersCount(reposFetches') <= UsersCount(reposFetches)
                 /\ repos' = repos
                 /\ localStorage'.botxlab_cache_v6 = localStorage.botxlab_cache_v6]_vars

\* The first load of a session without a cache has failed: the catalog is
\* empty and nothing has been written.
C21_Witness ==
    /\ phase = "mounted" /\ syncStatus = "failed" /\ reposFetches = <<>>
    /\ repos = JArray(<<>>)
    /\ localStorage.botxlab_cache_v6 = Absent

\* The Authorization header of a request made with the credential.
BearerOf(credential) ==
    IF credential = "" THEN NoHeader ELSE "Bearer " \o credential

\* C22: every request under way carries Authorization: Bearer {credential}
\* for the credential its call was started with, and no Authorization header
\* when that credential is empty, the README request (whose Accept header is
\* the raw one) included; a call is started with the credential configured
\* at that step; and the request to the user endpoint carries the headers of
\* the request to the organization endpoint it follows.
C22_AuthorizationIffCredential ==
    [][/\ \A k \in DOMAIN reposFetches' :
             LET call == reposFetches'[k]
                 sent == ListingRequest(call).headers
             IN  /\ sent.Authorization # NoHeader <=> call.token # ""
                 /\ sent.Authorization = BearerOf(call.token)
       /\ \A k \in DOMAIN contentFetches' :
             LET call == contentFetches'[k]
                 sent == ContentRequest(call).headers
             IN  /\ sent.Authorization # NoHeader <=> call.token # ""
                 /\ sent.Authorization = BearerOf(call.token)
                 /\ call.tab = "readme" <=> sent.Accept = "application/vnd.github.v3.raw"
       /\ Len(reposFetches') > Len(reposFetches) =>
             ListingRequest(reposFetches'[Len(reposFetches')]).headers.Authorization
                 = BearerOf(config'.token)
       /\ Len(contentFetches') > Len(contentFetches) =>
             ContentRequest(contentFetches'[Len(contentFetches')]).headers.Authorization
                 = BearerOf(config'.token)
       /\ \A k \in DOMAIN reposFetches :
             (/\ Len(reposFetches') = Len(reposFetches)
              /\ reposFetches[k].endpoint = "orgs" /\ reposFetches'[k].endpoint = "users")
                 => ListingRequest(reposFetches'[k]).headers
                        = ListingRequest(reposFetches[k]).headers]_vars

\* A README request and a request to the user endpoint are under way, both
\* with the credential.
C22_Witness ==
    /\ \E k \in DOMAIN contentFetches :
          /\ contentFetches[k].tab = "readme"
          /\ ContentRequest(contentFetches[k]).headers.Authorization = "Bearer ghp"
    /\ \E k \in DOMAIN reposFetches :
          /\ reposFetches[k].endpoint = "users"
          /\ ListingRequest(reposFetches[k]).headers.Authorization = "Bearer ghp"

\* C23: every step of a session that changes the configured handle issues a
\* listing request for the new handle, so that the catalog of the old
\* handle does not stand as that of the new one with no request made.
C23_HandleChangeRefetches ==
    [][(phase = "mounted" /\ phase' = "mounted" /\ config'.org # config.org)
          => /\ Len(reposFetches') > Len(reposFetches)
             /\ reposFetches'[Len(reposFetches')].org = config'.org
             /\ reposFetches'[Len(reposFetches')].endpoint = "orgs"]_vars

\* C24: the top language of the dashboard is 'None' when no repository of
\* the catalog has a language; otherwise it is the language of a repository
\* such that no language occurs more often in the catalog, and such that
\* every repository whose language occurs as often comes no later in the
\* catalog.
C24_TopLanguage ==
    phase = "mounted" =>
        LET items == repos.items
            present == {k \in DOMAIN items : LanguageOf(items[k]) # NULL}
            count(k) == Cardinality({j \in present :
                                        LanguageOf(items[j]) = LanguageOf(items[k])})
        IN  IF present = {} THEN topLang = "None"
            ELSE \E k \in present :
                    /\ topLang = LanguageOf(items[k])
                    /\ \A j \in present : count(j) <= count(k)
                    /\ \A j \in present : count(j) = count(k) => j <= k

\* Two languages occur once each, and the one seen last is the top
\* language, before a repository with no language.
C24_Witness ==
    /\ phase = "mounted" /\ Len(repos.items) = 3
    /\ LanguageOf(repos.items[1]) = "Rust"
    /\ LanguageOf(repos.items[2]) = "Go"
    /\ LanguageOf(repos.items[3]) = NULL
    /\ topLang = "Go"

\* C25: in every state in which the active tab is not readme or the README
\* text is empty, and no animation frame of the TOC effect is pending, the
\* table of contents is empty.
C25_TocEmptyOffReadme ==
    (/\ phase = "mounted" /\ ~tocFramePending
     /\ activeTab # "readme" \/ readmeContent = EmptyText)
        => toc = <<>>

\* The call is the load of another selection than the one shown.
IsStaleLoad(call) ==
    view = "project" /\ (call.repo # currentRepo.id \/ call.tab # activeTab)

\* C26: every step in which the load of an earlier selection ends leaves
\* the failure reason of the selection shown as it was.
C26_StaleFailureIgnored ==
    [][\A i \in DOMAIN contentFetches : \A reply \in ContentReplies(contentFetches[i]) :
          (/\ phase = "mounted" /\ ContentResponse(i, reply)
           /\ IsStaleLoad(contentFetches[i]))
              => contentError' = contentError]_vars

\* C27: every step in which the load of the selection shown ends while an
\* earlier load has not (and none has ended since the selection was made)
\* clears the loading flag and leaves the outcome of that load: its failure
\* reason if it failed, and otherwise no failure reason and its content.
C27_HungFetchDoesNotBlock ==
    [][\A i \in DOMAIN contentFetches : \A reply \in ContentReplies(contentFetches[i]) :
          (/\ phase = "mounted" /\ ContentResponse(i, reply)
           /\ i = Len(contentFetches) /\ i > 1
           /\ IsCurrentLoad(contentFetches[i]) /\ contentLoading)
              => LET call == contentFetches[i]
                     thrown == LoadContentThrows(call, reply)
                     shown == IF call.tab = "readme" THEN readmeContent'
                              ELSE IF call.tab = "releases" THEN releases'
                              ELSE IF call.tab = "commits" THEN commits'
                              ELSE collaborators'
                 IN  /\ ~contentLoading'
                     /\ contentError' = thrown
                     /\ thrown = NULL => shown = reply.data
                     /\ Len(contentFetches') = Len(contentFetches) - 1]_vars

\* The content of the selection is shown while the load of an earlier
\* selection is still under way.
C27_Witness ==
    /\ ContentReady /\ VisibleContentIsOf(currentRepo.id)
    /\ activeTab = "readme" /\ readmeContent # EmptyText
    /\ Len(contentFetches) = 1 /\ IsStaleLoad(contentFetches[1])

\* C28: every step in which the load of an earlier selection ends while the
\* load of the selection shown is under way leaves the loading flag set.
C28_LoadingWhileCurrentInFlight ==
    [][\A i \in DOMAIN contentFetches : \A reply \in ContentReplies(contentFetches[i]) :
          (/\ phase = "mounted" /\ ContentResponse(i, reply)
           /\ IsStaleLoad(contentFetches[i])
           /\ \E j \in DOMAIN contentFetches : j # i /\ IsCurrentLoad(contentFetches[j]))
              => (contentLoading => contentLoading')]_vars

\* C29: every step in which a load ends, on either path, clears the loading
\* flag; every step that starts a load sets it and clears the failure
\* reason; and with no load under way the flag is clear.
C29_SettledLoadClearsLoading ==
    [][/\ \A i \in DOMAIN contentFetches : \A reply \in ContentReplies(contentFetches[i]) :
             (phase = "mounted" /\ ContentResponse(i, reply)) => ~contentLoading'
       /\ ContentRequestIssued => (contentLoading' /\ contentError' = NULL)
       /\ (phase' = "mounted" /\ contentFetches' = <<>>) => ~contentLoading']_vars

\* The load of the commits tab has failed on the transport and nothing is
\* under way.
C29_Witness ==
    /\ ContentFailed /\ contentFetches = <<>>
    /\ activeTab = "commits" /\ contentError = FailedToFetch

\* C30: every step in which a fetchRepos call that was issued for another
\* handle than the configured one completes leaves the catalog and the
\* cache as they were.
C30_OldHandleNeverOverwrites ==
    [][\A i \in DOMAIN reposFetches : \A reply \in ListingReplies :
          (/\ phase = "mounted" /\ ReposResponse(i, reply)
           /\ reposFetches[i].org # config.org)
              => /\ repos' = repos
                 /\ localStorage'.botxlab_cache_v6 = localStorage.botxlab_cache_v6]_vars

\* C31: every Save Changes step that saves another handle than the stored
\* one leaves a cache from which a session start rehydrates no repository.
C31_SaveInvalidatesCache ==
    [][(SaveChanges /\ config.org # InitialConfig(localStorage).org)
          => Len(InitialRepos(localStorage'.botxlab_cache_v6).items) = 0]_vars

\* The cache is the serialisation of the catalog and reads back as it.
CacheIsCatalog ==
    /\ localStorage.botxlab_cache_v6 = Item(JSONstringify(repos.items))
    /\ InitialRepos(localStorage.botxlab_cache_v6) = repos

\* C32: in every state of a session that is constructed or mounted and holds
\* a non-empty catalog, the cache is the serialisation of the catalog and
\* reads back as the catalog; and every step that opens a project, switches
\* the tab or ends a content load leaves the catalog and the cache as they
\* were.
C32_CacheAgreesWithCatalog ==
    /\ []((/\ phase \in {"constructed", "mounted"}
           /\ IsArray(repos) /\ Len(repos.items) > 0) => CacheIsCatalog)
    /\ [][(\/ \E r \in Repo : HandleOpenProject(r)
           \/ \E t \in AgreementTabs : SetActiveTab(t)
           \/ \E i \in DOMAIN contentFetches :
                 \E reply \in AgreementReplies(contentFetches[i]) : ContentResponse(i, reply))
              => (repos' = repos /\ localStorage' = localStorage)]_vars

\* A refresh has loaded every repository, and the README of one of them has
\* been loaded and is shown.
C32_Witness ==
    /\ phase = "mounted" /\ syncStatus = "success"
    /\ Len(repos.items) = NumRepoIds /\ CacheIsCatalog
    /\ ContentReady /\ activeTab = "readme" /\ readmeContent # EmptyText

\* The reply ends a refresh without a repository: it fails or is the empty
\* collection.
EndsWithoutRepository(call, reply) ==
    /\ ~FallsBackToUser(call, reply)
    /\ ReposReplyThrows(reply) \/ Len(reply.data.items) = 0

\* C33: the first render of a session whose catalog is empty issues one
\* listing request; every step in which a refresh of an empty catalog fails
\* or returns no repository issues no request; and from some state on no
\* listing request is in flight.
C33_NoRefreshLoop ==
    /\ [][(phase = "constructed" /\ phase' = "mounted" /\ Len(repos.items) = 0)
             => Len(reposFetches') = 1]_vars
    /\ [][\A i \in DOMAIN reposFetches : \A reply \in ListingReplies :
             (/\ phase = "mounted" /\ ReposResponse(i, reply)
              /\ Len(repos.items) = 0
              /\ EndsWithoutRepository(reposFetches[i], reply))
                 => /\ reposFetches' = RemoveAt(reposFetches, i)
                    /\ ~reposLoading' /\ Len(repos'.items) = 0]_vars
    /\ <>[](reposFetches = <<>>)

\* The automatic refresh of an empty catalog has returned no repository and
\* nothing is in flight.
C33_Witness ==
    /\ phase = "mounted" /\ syncStatus = "success" /\ ~reposLoading
    /\ reposFetches = <<>> /\ repos = JArray(<<>>)

====
